---- MODULE Spec2Model ----
(***************************************************************************)
(* Model of 0x02-redis_basic: exercise.py (Cache, count_calls,             *)
(* call_history, replay) and web.py (cache_response, get_page).            *)
(*                                                                         *)
(* Both modules open redis.Redis() with its defaults, so they talk to the  *)
(* same database; `db` is that database.  The store is taken to be         *)
(* available: a Redis command raises only what its arguments and the       *)
(* current contents of the database make it raise (DataError for a value   *)
(* that cannot be encoded, WRONGTYPE for a string command on a list).      *)
(*                                                                         *)
(* Python values are records [kind, val]:                                  *)
(*   text   val = sequence of code points                                  *)
(*   bytes  val = sequence of bytes (0..255)                               *)
(*   int    val = an integer                                               *)
(*   float  val = twice the number (the model holds multiples of 0.5)      *)
(*   none   val = <<>>                                                     *)
(*   str    val = a TLA+ string: a Python str that is used as a key        *)
(* Keys are TLA+ strings.                                                  *)
(***************************************************************************)
EXTENDS Integers, Sequences, FiniteSets, TLC

VARIABLES
    db,        \* the Redis database: key -> [type, val, ttl]
    uuidSeq,   \* number of uuid.uuid4() values drawn so far
    last,      \* the last operation: its arguments and what the caller saw
    issued,    \* history: keys returned by Cache.store
    calls,     \* history: Cache.store calls made on the current database
    failed,    \* history: of those, the calls that raised
    attempts,  \* history: url -> get_page(url) invocations
    fetches,   \* history: url -> invocations of the wrapped fetch
    age,       \* history: url -> seconds since result:{url} was written, -1 never
    log,       \* history: per Cache.store call on the current database, what
               \* it was given and what it returned or raised
    base,      \* history: url -> value of attempts at the last Cache()
    storeProc, \* caller -> where it is in a Cache.store call run step by step
    pageProc   \* caller -> where it is in a get_page call run step by step

vars == <<db, uuidSeq, last, issued, calls, failed, attempts, fetches, age, log, base,
          storeProc, pageProc>>

-----------------------------------------------------------------------------
(* Bounds of the model *)

MaxCalls == 2

MaxPageCalls == 2

MaxMixed == 1

NumCallers == 2

NumPageCallers == 2

-----------------------------------------------------------------------------
(* Python values *)

PyText(s) == [kind |-> "text", val |-> s]

PyBytes(s) == [kind |-> "bytes", val |-> s]

PyInt(i) == [kind |-> "int", val |-> i]

PyFloat(h) == [kind |-> "float", val |-> h]

\* A Python str that names a key, held as the TLA+ string of the key.
PyStr(k) == [kind |-> "str", val |-> k]

None == [kind |-> "none", val |-> <<>>]

\* Every call returns or raises.
Return(v) == [raised |-> FALSE, value |-> v]

Raise(e) == [raised |-> TRUE, value |-> e]

\* The code point of a lone surrogate, which str.encode('utf-8') rejects.
IsSurrogate(c) == c >= 55296 /\ c <= 57343

RECURSIVE NatToDigits(_)
NatToDigits(n) ==
    IF n < 10 THEN <<48 + n>> ELSE NatToDigits(n \div 10) \o <<48 + (n % 10)>>

\* repr(int): the decimal digits, '-' first when negative.
IntRepr(i) == IF i < 0 THEN <<45>> \o NatToDigits(0 - i) ELSE NatToDigits(i)

\* repr(float) of h/2: "<integer part>.<0 or 5>".
FloatRepr(h) ==
    LET a == IF h < 0 THEN 0 - h ELSE h
        sign == IF h < 0 THEN <<45>> ELSE <<>>
    IN  sign \o NatToDigits(a \div 2) \o <<46>> \o <<48 + 5 * (a % 2)>>

\* str.encode('utf-8') of one code point below 0x10000; <<>> marks the
\* UnicodeEncodeError of a surrogate.
Utf8Char(c) ==
    IF c < 128 THEN <<c>>
    ELSE IF c < 2048 THEN <<192 + (c \div 64), 128 + (c % 64)>>
    ELSE IF IsSurrogate(c) THEN <<>>
    ELSE <<224 + (c \div 4096), 128 + ((c \div 64) % 64), 128 + (c % 64)>>

RECURSIVE Utf8Bytes(_)
Utf8Bytes(s) == IF s = <<>> THEN <<>> ELSE Utf8Char(Head(s)) \o Utf8Bytes(Tail(s))

Utf8Encode(s) ==
    IF \E i \in 1..Len(s) : IsSurrogate(s[i])
    THEN Raise("UnicodeEncodeError")
    ELSE Return(Utf8Bytes(s))

IsCont(b) == b >= 128 /\ b < 192

\* bytes.decode('utf-8'): the code points, or UnicodeDecodeError on a byte
\* sequence that is not well-formed UTF-8 (code points below 0x10000).
RECURSIVE Utf8Decode(_)
Utf8Decode(b) ==
    IF b = <<>> THEN Return(<<>>)
    ELSE LET h == Head(b)
             n == IF h < 128 THEN 1
                  ELSE IF h >= 194 /\ h < 224 THEN 2
                  ELSE IF h >= 224 /\ h < 240 THEN 3
                  ELSE 0
         IN  IF n = 0 \/ Len(b) < n \/ \E i \in 2..n : ~IsCont(b[i])
             THEN Raise("UnicodeDecodeError")
             ELSE LET c == IF n = 1 THEN h
                           ELSE IF n = 2 THEN (h - 192) * 64 + (b[2] - 128)
                           ELSE (h - 224) * 4096 + (b[2] - 128) * 64 + (b[3] - 128)
                      rest == Utf8Decode(SubSeq(b, n + 1, Len(b)))
                  IN  IF (n = 3 /\ c < 2048) \/ IsSurrogate(c) \/ rest.raised
                      THEN Raise("UnicodeDecodeError")
                      ELSE Return(<<c>> \o rest.value)

IsDigit(b) == b >= 48 /\ b <= 57

RECURSIVE DigitsToNat(_)
DigitsToNat(b) ==
    IF b = <<>> THEN 0 ELSE 10 * DigitsToNat(SubSeq(b, 1, Len(b) - 1)) + (b[Len(b)] - 48)

\* int(x) of bytes: an optional sign and decimal digits, else ValueError.
ParseInt(b) ==
    LET neg == b # <<>> /\ Head(b) = 45
        digits == IF b # <<>> /\ Head(b) \in {43, 45} THEN Tail(b) ELSE b
    IN  IF digits = <<>> \/ \E i \in 1..Len(digits) : ~IsDigit(digits[i])
        THEN Raise("ValueError")
        ELSE Return(IF neg THEN 0 - DigitsToNat(digits) ELSE DigitsToNat(digits))

\* float(x) of bytes "<digits>.<0 or 5>" with an optional '-', as twice the
\* number; ValueError on anything else the model writes.
ParseFloat(b) ==
    LET neg == b # <<>> /\ Head(b) = 45
        body == IF neg THEN Tail(b) ELSE b
        n == Len(body)
    IN  IF n < 3 \/ body[n - 1] # 46 \/ body[n] \notin {48, 53}
           \/ \E i \in 1..(n - 2) : ~IsDigit(body[i])
        THEN Raise("ValueError")
        ELSE LET h == 2 * DigitsToNat(SubSeq(body, 1, n - 2)) + (IF body[n] = 53 THEN 1 ELSE 0)
             IN  Return(IF neg THEN 0 - h ELSE h)

\* repr(str) for the characters of the model: printable characters other
\* than quote and backslash stand for themselves, a lone surrogate is
\* written \udXXX (only U+D800 occurs).
ReprChar(c) == IF IsSurrogate(c) THEN <<92, 117, 100, 56, 48, 48>> ELSE <<c>>

RECURSIVE ReprChars(_)
ReprChars(s) == IF s = <<>> THEN <<>> ELSE ReprChar(Head(s)) \o ReprChars(Tail(s))

\* repr(bytes): printable ASCII stands for itself, 0xff is written \xff.
ReprByte(b) == IF b >= 32 /\ b < 127 THEN <<b>> ELSE <<92, 120, 102, 102>>

RECURSIVE ReprBytes(_)
ReprBytes(s) == IF s = <<>> THEN <<>> ELSE ReprByte(Head(s)) \o ReprBytes(Tail(s))

\* repr(v) as text.
Repr(v) ==
    CASE v.kind = "text" -> <<39>> \o ReprChars(v.val) \o <<39>>
      [] v.kind = "bytes" -> <<98, 39>> \o ReprBytes(v.val) \o <<39>>
      [] v.kind = "int" -> IntRepr(v.val)
      [] v.kind = "float" -> FloatRepr(v.val)
      [] OTHER -> <<78, 111, 110, 101>>

\* str(args) of the one-element tuple (data,): "(" repr(data) ",)".
StrArgs(data) == PyText(<<40>> \o Repr(data) \o <<44, 41>>)

-----------------------------------------------------------------------------
(* The inputs of the model *)

TTL == 10

Urls == {"http://a", "http://b"}

\* Response bodies: "" and "e-acute".
Bodies == {<<>>, <<233>>}

\* What the wrapped fetch (requests.get(url).text) can do: return a body or
\* raise.
FetchOutcomes == {Return(PyText(b)) : b \in Bodies} \cup {Raise("RequestException")}

\* Arguments of Cache.store: 'e-acute', a lone surrogate, b'\xff', -12, 1.5
\* and None (outside the annotated types).
Values ==
    {PyText(<<233>>), PyText(<<55296>>), PyBytes(<<255>>), PyInt(0 - 12),
     PyFloat(3), None}

\* str(uuid.uuid4()): the n-th value drawn; the values drawn are distinct.
Uuid4(n) == "uuid-" \o ToString(n)

\* The characters of a key that uuid4 produced.
UuidChars(k) ==
    LET n == CHOOSE i \in 1..(MaxCalls + NumCallers + 1) : Uuid4(i) = k
    IN  <<117, 117, 105, 100, 45>> \o NatToDigits(n)

CountKey(url) == "count:" \o url

ResultKey(url) == "result:" \o url

QualName == "Cache.store"

InputsKey == QualName \o ":inputs"

OutputsKey == QualName \o ":outputs"

\* Keys a caller may hand to Cache.get.
GetKeys ==
    {QualName, InputsKey, OutputsKey, "missing"}
    \cup {CountKey(u) : u \in Urls} \cup {ResultKey(u) : u \in Urls}
    \cup {Uuid4(n) : n \in 1..MaxCalls}

\* Keys a caller may hand to Cache.get_str and Cache.get_int.
DecodeKeys == {"missing"} \cup {Uuid4(n) : n \in 1..MaxCalls}

\* What a caller may hand to replay: cache.store (a bound method), Cache.store
\* (the function, which has no __self__) and None.
BoundStore == [kind |-> "method", qualname |-> QualName]

UnboundStore == [kind |-> "function", qualname |-> QualName]

ReplayFns == {BoundStore, UnboundStore, None}

-----------------------------------------------------------------------------
(* redis.Redis: the commands the program issues.  A command yields          *)
(* [db, out]: the database after it and what the client call returns or     *)
(* raises.                                                                  *)

EmptyDb == [k \in {} |-> None]

Put(d, key, entry) == [k \in DOMAIN d \cup {key} |-> IF k = key THEN entry ELSE d[k]]

StringEntry(b, ttl) == [type |-> "string", val |-> b, ttl |-> ttl]

ListEntry(items) == [type |-> "list", val |-> items, ttl |-> 0 - 1]

\* The client's encoding of a value it sends: bytes as they are, str as
\* UTF-8, int and float as their repr; anything else is a DataError.
Encode(v) ==
    CASE v.kind = "bytes" -> Return(v.val)
      [] v.kind = "text" -> Utf8Encode(v.val)
      [] v.kind = "str" -> Return(UuidChars(v.val))
      [] v.kind = "int" -> Return(IntRepr(v.val))
      [] v.kind = "float" -> Return(FloatRepr(v.val))
      [] OTHER -> Raise("DataError")

RedisSet(d, key, v) ==
    LET e == Encode(v)
    IN  IF e.raised THEN [db |-> d, out |-> e]
        ELSE [db |-> Put(d, key, StringEntry(e.value, 0 - 1)), out |-> Return(TRUE)]

RedisSetex(d, key, ttl, v) ==
    LET e == Encode(v)
    IN  IF e.raised THEN [db |-> d, out |-> e]
        ELSE [db |-> Put(d, key, StringEntry(e.value, ttl)), out |-> Return(TRUE)]

RedisGet(d, key) ==
    IF key \notin DOMAIN d THEN [db |-> d, out |-> Return(None)]
    ELSE IF d[key].type # "string" THEN [db |-> d, out |-> Raise("WRONGTYPE")]
    ELSE [db |-> d, out |-> Return(PyBytes(d[key].val))]

RedisExists(d, key) == IF key \in DOMAIN d THEN 1 ELSE 0

RedisIncr(d, key) ==
    IF key \notin DOMAIN d
    THEN [db |-> Put(d, key, StringEntry(IntRepr(1), 0 - 1)), out |-> Return(PyInt(1))]
    ELSE IF d[key].type # "string" THEN [db |-> d, out |-> Raise("WRONGTYPE")]
    ELSE LET n == ParseInt(d[key].val)
         IN  IF n.raised THEN [db |-> d, out |-> Raise("ResponseError")]
             ELSE [db |-> Put(d, key, StringEntry(IntRepr(n.value + 1), d[key].ttl)),
                   out |-> Return(PyInt(n.value + 1))]

\* Mutation of RedisRpush: the list is written back as the new entry alone,
\* so the appends made before are lost.
RedisRpushOverwrite(d, key, v) ==
    LET e == Encode(v)
    IN  IF e.raised THEN [db |-> d, out |-> e]
        ELSE [db |-> Put(d, key, ListEntry(<<e.value>>)), out |-> Return(PyInt(1))]

RedisRpush(d, key, v) ==
    LET e == Encode(v)
    IN  IF e.raised THEN [db |-> d, out |-> e]
        ELSE IF key \notin DOMAIN d
        THEN [db |-> Put(d, key, ListEntry(<<e.value>>)), out |-> Return(PyInt(1))]
        ELSE IF d[key].type # "list" THEN [db |-> d, out |-> Raise("WRONGTYPE")]
        ELSE [db |-> Put(d, key, ListEntry(Append(d[key].val, e.value))),
              out |-> Return(PyInt(Len(d[key].val) + 1))]

\* LRANGE key start stop, negative indices counting from the end.
RedisLrange(d, key, start, stop) ==
    IF key \notin DOMAIN d THEN [db |-> d, out |-> Return(<<>>)]
    ELSE IF d[key].type # "list" THEN [db |-> d, out |-> Raise("WRONGTYPE")]
    ELSE LET n == Len(d[key].val)
             lo == IF start < 0 THEN (IF n + start < 0 THEN 0 ELSE n + start) ELSE start
             hi == IF stop < 0 THEN n + stop ELSE (IF stop >= n THEN n - 1 ELSE stop)
         IN  [db |-> d, out |-> Return(SubSeq(d[key].val, lo + 1, hi + 1))]

\* Mutation of RedisFlushdb: the flush is left out.
FlushdbOmitted(d) == d

\* Mutation of RedisFlushdb: the flush spares the keys of the page cache.
FlushdbSparesPages(d) ==
    LET pages == {CountKey(u) : u \in Urls} \cup {ResultKey(u) : u \in Urls}
    IN  [k \in DOMAIN d \cap pages |-> d[k]]

RedisFlushdb(d) == EmptyDb

\* One second passes: every expiry comes a second closer, and an entry whose
\* time is up is gone.
Expire(d) ==
    LET live == {k \in DOMAIN d : d[k].ttl # 1}
    IN  [k \in live |-> IF d[k].ttl > 1 THEN [d[k] EXCEPT !.ttl = @ - 1] ELSE d[k]]

-----------------------------------------------------------------------------
(* exercise.py *)

\* Cache.__init__ sets self._redis = redis.Redis(), so the decorators'
\* isinstance(self._redis, redis.Redis) tests hold.
IsRedisInstance == TRUE

\* Mutation of StoreMethod: every value is written under the same key.
StoreMethodOneKey(d, seq, data) ==
    LET w == RedisSet(d, Uuid4(1), data)
    IN  IF w.out.raised THEN [db |-> w.db, seq |-> seq + 1, out |-> w.out]
        ELSE [db |-> w.db, seq |-> seq + 1, out |-> Return(PyStr(Uuid4(1)))]

\* Mutation of StoreMethod: the value is written under one uuid4 and another
\* one is returned.
StoreMethodTwoKeys(d, seq, data) ==
    LET w == RedisSet(d, Uuid4(seq + 1), data)
    IN  IF w.out.raised THEN [db |-> w.db, seq |-> seq + 1, out |-> w.out]
        ELSE [db |-> w.db, seq |-> seq + 1, out |-> Return(PyStr(Uuid4(seq + 2)))]

\* Cache.store, undecorated: a method call yields [db, seq, out], seq being
\* the number of uuid4 values drawn.
StoreMethod(d, seq, data) ==
    LET storage_key == Uuid4(seq + 1)
        w == RedisSet(d, storage_key, data)
    IN  IF w.out.raised THEN [db |-> w.db, seq |-> seq + 1, out |-> w.out]
        ELSE [db |-> w.db, seq |-> seq + 1, out |-> Return(PyStr(storage_key))]

\* Mutation of CountCallsInvoker: the call is counted once the method has
\* returned.
CountCallsAfter(d, seq, data) ==
    LET m == StoreMethod(d, seq, data)
    IN  IF m.out.raised THEN m
        ELSE [db |-> RedisIncr(m.db, QualName).db, seq |-> m.seq, out |-> m.out]

\* Mutation of CountCallsInvoker: the decorator calls the method and forgets
\* the increment.
CountCallsNoIncr(d, seq, data) == StoreMethod(d, seq, data)

\* count_calls(store).invoker
CountCallsInvoker(d, seq, data) ==
    LET c == IF IsRedisInstance THEN RedisIncr(d, QualName) ELSE [db |-> d, out |-> Return(None)]
    IN  IF c.out.raised THEN [db |-> c.db, seq |-> seq, out |-> c.out]
        ELSE StoreMethod(c.db, seq, data)

\* Mutation of CallHistoryInvoker: the arguments are recorded only once the
\* method has returned.
CallHistoryInputLate(d, seq, data) ==
    LET m == CountCallsInvoker(d, seq, data)
    IN  IF m.out.raised THEN m
        ELSE LET i == RedisRpush(m.db, InputsKey, StrArgs(data))
                 o == RedisRpush(i.db, OutputsKey, m.out.value)
             IN  [db |-> o.db, seq |-> m.seq, out |-> m.out]

\* Mutation of CallHistoryInvoker: an output entry (empty) is appended also
\* when the method raised.
CallHistoryOutputAlways(d, seq, data) ==
    LET i == RedisRpush(d, InputsKey, StrArgs(data))
        m == CountCallsInvoker(i.db, seq, data)
        o == RedisRpush(m.db, OutputsKey, IF m.out.raised THEN PyBytes(<<>>) ELSE m.out.value)
    IN  [db |-> o.db, seq |-> m.seq, out |-> m.out]

\* call_history(count_calls(store)).invoker: what Cache.store is.
CallHistoryInvoker(d, seq, data) ==
    LET i == IF IsRedisInstance THEN RedisRpush(d, InputsKey, StrArgs(data))
             ELSE [db |-> d, out |-> Return(None)]
    IN  IF i.out.raised THEN [db |-> i.db, seq |-> seq, out |-> i.out]
        ELSE LET m == CountCallsInvoker(i.db, seq, data)
             IN  IF m.out.raised THEN m
                 ELSE LET o == IF IsRedisInstance THEN RedisRpush(m.db, OutputsKey, m.out.value)
                               ELSE [db |-> m.db, out |-> Return(None)]
                      IN  IF o.out.raised THEN [db |-> o.db, seq |-> m.seq, out |-> o.out]
                          ELSE [db |-> o.db, seq |-> m.seq, out |-> m.out]

\* Mutation of ApplyFn: the conversion is skipped when there is nothing to
\* convert.
ApplyFnGuarded(fn, x) ==
    IF x.kind # "bytes" THEN Return(x)
    ELSE IF fn = "str"
    THEN LET t == Utf8Decode(x.val) IN IF t.raised THEN t ELSE Return(PyText(t.value))
    ELSE LET n == ParseInt(x.val) IN IF n.raised THEN n ELSE Return(PyInt(n.value))

\* The conversion functions handed to Cache.get: none, get_str's
\* lambda x: x.decode('utf-8'), get_int's lambda x: int(x).
ApplyFn(fn, x) ==
    CASE fn = "str" ->
            IF x.kind # "bytes" THEN Raise("AttributeError")
            ELSE LET t == Utf8Decode(x.val)
                 IN  IF t.raised THEN t ELSE Return(PyText(t.value))
      [] fn = "int" ->
            IF x.kind # "bytes" THEN Raise("TypeError")
            ELSE LET n == ParseInt(x.val)
                 IN  IF n.raised THEN n ELSE Return(PyInt(n.value))
      [] OTHER -> Return(x)

\* Mutation of CacheGet: an absent key reads as empty bytes.
CacheGetEmptyDefault(d, key, fn) ==
    LET stored_data == RedisGet(d, key)
    IN  IF stored_data.out.raised THEN stored_data.out
        ELSE IF stored_data.out.value = None THEN Return(PyBytes(<<>>))
        ELSE stored_data.out

\* Cache.get(key, fn)
CacheGet(d, key, fn) ==
    LET stored_data == RedisGet(d, key)
    IN  IF stored_data.out.raised THEN stored_data.out
        ELSE IF fn # "None" THEN ApplyFn(fn, stored_data.out.value)
        ELSE stored_data.out

\* The call counter as replay reads it: 0 when the key is absent.
CallCount(d, name) ==
    IF RedisExists(d, name) # 0 THEN ParseInt(RedisGet(d, name).out.value.val).value ELSE 0

\* The whole list under a key, as replay reads it.
History(d, key) == RedisLrange(d, key, 0, 0 - 1).out.value

\* Mutation of Zip: every input is paired, with empty bytes once the outputs
\* have run out.
RECURSIVE ZipInputs(_, _)
ZipInputs(a, b) ==
    IF a = <<>> THEN <<>>
    ELSE <<<<Head(a), IF b = <<>> THEN <<>> ELSE Head(b)>>>>
         \o ZipInputs(Tail(a), IF b = <<>> THEN <<>> ELSE Tail(b))

\* zip(a, b): the pairs up to the end of the shorter sequence.
RECURSIVE Zip(_, _)
Zip(a, b) ==
    IF a = <<>> \/ b = <<>> THEN <<>>
    ELSE <<<<Head(a), Head(b)>>>> \o Zip(Tail(a), Tail(b))

\* '{} was called {} times:'.format(name, count), as its pieces.
FormatHeader(name, count) == <<name, " was called ", IntRepr(count), " times:">>

\* '{}(*{}) -> {}'.format(name, input.decode("utf-8"), output), as its
\* pieces; the output, being bytes, is formatted as its repr.
FormatLine(name, input, output) ==
    <<name, "(*", Utf8Decode(input).value, ") -> ", Repr(PyBytes(output))>>

\* The lines the loop of replay prints for the zipped pairs; the decoding of
\* an input that is not UTF-8 raises.
ReplayLines(name, pairs) ==
    IF \E i \in 1..Len(pairs) : Utf8Decode(pairs[i][1]).raised
    THEN Raise("UnicodeDecodeError")
    ELSE Return([i \in 1..Len(pairs) |-> FormatLine(name, pairs[i][1], pairs[i][2])])

\* Mutation of replay: looking at the history counts as a call.
replayCounted(d, fn) ==
    IF fn.kind # "method" THEN [db |-> d, out |-> Return(<<>>)]
    ELSE [db |-> RedisIncr(d, fn.qualname).db,
          out |-> Return(<<FormatHeader(fn.qualname, CallCount(d, fn.qualname))>>
                         \o ReplayLines(fn.qualname,
                                        Zip(History(d, InputsKey), History(d, OutputsKey))).value)]

\* replay(fn): [db, out], out being the lines printed.
replay(d, fn) ==
    IF fn.kind # "method" THEN [db |-> d, out |-> Return(<<>>)]
    ELSE IF ~IsRedisInstance THEN [db |-> d, out |-> Return(<<>>)]
    ELSE LET function_name == fn.qualname
             function_call_count == CallCount(d, function_name)
             function_inputs == RedisLrange(d, function_name \o ":inputs", 0, 0 - 1)
             function_outputs == RedisLrange(function_inputs.db, function_name \o ":outputs", 0, 0 - 1)
             lines == ReplayLines(function_name,
                                  Zip(function_inputs.out.value, function_outputs.out.value))
         IN  [db |-> function_outputs.db,
              out |-> IF lines.raised THEN lines
                      ELSE Return(<<FormatHeader(function_name, function_call_count)>>
                                  \o lines.value)]

-----------------------------------------------------------------------------
(* web.py *)

\* Mutation of Truthy: nothing read from the cache passes the test.
TruthyNever(v) == FALSE

\* Python's truth value of what redis_store.get returned.
Truthy(v) == v.kind = "bytes" /\ v.val # <<>>

\* Mutation of PageMiss: a failed fetch is cached as an empty page before
\* the error goes on.
PageMissCachesFailure(d, url, fetch) ==
    LET w == RedisSetex(d, ResultKey(url), TTL, IF fetch.raised THEN PyText(<<>>) ELSE fetch.value)
    IN  [db |-> w.db, out |-> fetch, fetched |-> TRUE]

\* Lines 58-64 of the invoker, the cache miss: call the wrapped method, whose
\* outcome is `fetch`, and cache what it returned for TTL seconds.
PageMiss(d, url, fetch) ==
    IF fetch.raised THEN [db |-> d, out |-> fetch, fetched |-> TRUE]
    ELSE LET w == RedisSetex(d, ResultKey(url), TTL, fetch.value)
         IN  [db |-> w.db, out |-> IF w.out.raised THEN w.out ELSE fetch, fetched |-> TRUE]

\* Mutation of PageLookup: a cache hit writes the entry again, which renews
\* its expiry.
PageLookupRenews(d, url, fetch) ==
    LET result == RedisGet(d, ResultKey(url))
    IN  IF Truthy(result.out.value)
        THEN [db |-> RedisSetex(d, ResultKey(url), TTL, result.out.value).db,
              out |-> Return(PyText(Utf8Decode(result.out.value.val).value)),
              fetched |-> FALSE]
        ELSE PageMiss(d, url, fetch)

\* Lines 53-64 of the invoker: look the URL up, answer from the cache when
\* the cached result is truthy.
PageLookup(d, url, fetch) ==
    LET result == RedisGet(d, ResultKey(url))
    IN  IF result.out.raised THEN [db |-> d, out |-> result.out, fetched |-> FALSE]
        ELSE IF Truthy(result.out.value)
        THEN LET t == Utf8Decode(result.out.value.val)
             IN  [db |-> d, out |-> IF t.raised THEN t ELSE Return(PyText(t.value)),
                  fetched |-> FALSE]
        ELSE PageMiss(d, url, fetch)

\* Mutation of PageInvoker: the request is counted only when the page is
\* fetched.
PageInvokerCountsMisses(d, url, fetch) ==
    IF Truthy(RedisGet(d, ResultKey(url)).out.value)
    THEN PageLookup(d, url, fetch)
    ELSE PageLookup(RedisIncr(d, CountKey(url)).db, url, fetch)

\* cache_response(get_page).invoker with the outcome `fetch` of the wrapped
\* method, should it be called: [db, out, fetched].
PageInvoker(d, url, fetch) ==
    LET c == RedisIncr(d, CountKey(url))
    IN  IF c.out.raised THEN [db |-> c.db, out |-> c.out, fetched |-> FALSE]
        ELSE PageLookup(c.db, url, fetch)

-----------------------------------------------------------------------------
(* Calls run step by step: one Redis command, or the fetch, per step *)

\* The callers of cache.store, and what they store.
Callers == 1..NumCallers

ConcValues == {PyText(<<233>>), PyBytes(<<255>>), None}

\* The uuid keys holding a value.
ValueKeys(d) ==
    {k \in DOMAIN d : \E n \in 1..(MaxCalls + NumCallers + 1) : k = Uuid4(n)}

\* What a step did to the database.
Effect(d, d2) ==
    IF History(d2, InputsKey) # History(d, InputsKey) THEN "inputs"
    ELSE IF CallCount(d2, QualName) # CallCount(d, QualName) THEN "incr"
    ELSE IF ValueKeys(d2) # ValueKeys(d) THEN "set"
    ELSE IF History(d2, OutputsKey) # History(d, OutputsKey) THEN "outputs"
    ELSE "none"

\* Mutation of StepOrder: count_calls is the outer decorator.
StepOrderCounterOutermost == <<"incr", "inputs", "set", "outputs">>

\* The Redis commands of one cache.store call, in the order the stacked
\* decorators issue them: call_history.invoker's rpush of the arguments,
\* count_calls.invoker's incr, the method's set, and back in
\* call_history.invoker the rpush of the returned key.
StepOrder == <<"inputs", "incr", "set", "outputs">>

Done == Len(StepOrder) + 1

IdleCaller == [pc |-> 0, data |-> None, out |-> Return(None), trace |-> <<>>]

AtStep(p, name) ==
    /\ storeProc[p].pc \in 1..Len(StepOrder)
    /\ StepOrder[storeProc[p].pc] = name

\* Caller p has run a command that left the database as d2 and returned or
\* raised `out`; `ret` is what the call will return as far as it is known.
Proceed(p, out, ret, d2) ==
    [storeProc EXCEPT ![p] =
        [pc |-> IF out.raised THEN Done ELSE @.pc + 1,
         data |-> @.data,
         out |-> IF out.raised THEN out ELSE ret,
         trace |-> Append(@.trace, Effect(db, d2))]]

\* cache.store(data) is entered.
CallStore(p) ==
    \E data \in ConcValues :
        /\ storeProc[p].pc = 0
        /\ storeProc' = [storeProc EXCEPT ![p] = [IdleCaller EXCEPT !.pc = 1, !.data = data]]
        /\ UNCHANGED <<db, uuidSeq, last, issued, calls, failed, attempts, fetches, age,
                       log, base, pageProc>>

\* call_history.invoker: self._redis.rpush(inputs_key, str(args))
StepInputs(p) ==
    /\ AtStep(p, "inputs")
    /\ LET i == RedisRpush(db, InputsKey, StrArgs(storeProc[p].data))
       IN  /\ db' = i.db
           /\ storeProc' = Proceed(p, i.out, storeProc[p].out, i.db)
    /\ UNCHANGED <<uuidSeq, last, issued, calls, failed, attempts, fetches, age,
                   log, base, pageProc>>

\* count_calls.invoker: self._redis.incr(method.__qualname__)
StepIncr(p) ==
    /\ AtStep(p, "incr")
    /\ LET c == RedisIncr(db, QualName)
       IN  /\ db' = c.db
           /\ storeProc' = Proceed(p, c.out, storeProc[p].out, c.db)
    /\ UNCHANGED <<uuidSeq, last, issued, calls, failed, attempts, fetches, age,
                   log, base, pageProc>>

\* Cache.store: the key is drawn and the value set.
StepSet(p) ==
    /\ AtStep(p, "set")
    /\ LET m == StoreMethod(db, uuidSeq, storeProc[p].data)
       IN  /\ db' = m.db
           /\ uuidSeq' = m.seq
           /\ issued' = IF m.out.raised THEN issued ELSE issued \cup {m.out.value.val}
           /\ storeProc' = Proceed(p, m.out, m.out, m.db)
    /\ UNCHANGED <<last, calls, failed, attempts, fetches, age, log, base, pageProc>>

\* call_history.invoker: self._redis.rpush(outputs_key, output)
StepOutputs(p) ==
    /\ AtStep(p, "outputs")
    /\ LET o == RedisRpush(db, OutputsKey, storeProc[p].out.value)
       IN  /\ db' = o.db
           /\ storeProc' = Proceed(p, o.out, storeProc[p].out, o.db)
    /\ UNCHANGED <<uuidSeq, last, issued, calls, failed, attempts, fetches, age,
                   log, base, pageProc>>

\* The callers of get_page.
PageCallers == 1..NumPageCallers

\* alone: no other call for the same url has been running during this call.
IdlePageCaller == [pc |-> "idle", url |-> "", out |-> Return(None), alone |-> TRUE]

Running(q) == pageProc[q].pc \notin {"idle", "done"}

At(q, pc, out) == [pageProc EXCEPT ![q] = [@ EXCEPT !.pc = pc, !.out = out]]

\* get_page(url) is entered.
CallPage(q) ==
    \E url \in Urls :
        /\ pageProc[q].pc = "idle"
        /\ LET others == {r \in PageCallers \ {q} : Running(r) /\ pageProc[r].url = url}
           IN  pageProc' = [r \in PageCallers |->
                               IF r = q
                               THEN [pc |-> "incr", url |-> url, out |-> Return(None),
                                     alone |-> others = {}]
                               ELSE IF r \in others THEN [pageProc[r] EXCEPT !.alone = FALSE]
                               ELSE pageProc[r]]
        /\ attempts' = [attempts EXCEPT ![url] = @ + 1]
        /\ UNCHANGED <<db, uuidSeq, last, issued, calls, failed, fetches, age, log, base,
                       storeProc>>

\* redis_store.incr(f'count:{url}')
PageStepIncr(q) ==
    /\ pageProc[q].pc = "incr"
    /\ LET c == RedisIncr(db, CountKey(pageProc[q].url))
       IN  /\ db' = c.db
           /\ pageProc' = IF c.out.raised THEN At(q, "done", c.out)
                           ELSE At(q, "get", pageProc[q].out)
    /\ UNCHANGED <<uuidSeq, last, issued, calls, failed, attempts, fetches, age, log, base,
                   storeProc>>

\* result = redis_store.get(f'result:{url}'); if result: return result.decode('utf-8')
PageStepGet(q) ==
    /\ pageProc[q].pc = "get"
    /\ LET result == RedisGet(db, ResultKey(pageProc[q].url))
       IN  pageProc' =
               IF result.out.raised THEN At(q, "done", result.out)
               ELSE IF Truthy(result.out.value)
               THEN LET t == Utf8Decode(result.out.value.val)
                    IN  At(q, "done", IF t.raised THEN t ELSE Return(PyText(t.value)))
               ELSE At(q, "fetch", pageProc[q].out)
    /\ UNCHANGED <<db, uuidSeq, last, issued, calls, failed, attempts, fetches, age, log,
                   base, storeProc>>

\* result = method(url)
PageStepFetch(q) ==
    \E fetch \in FetchOutcomes :
        /\ pageProc[q].pc = "fetch"
        /\ pageProc' = At(q, IF fetch.raised THEN "done" ELSE "setex", fetch)
        /\ fetches' = [fetches EXCEPT ![pageProc[q].url] = @ + 1]
        /\ UNCHANGED <<db, uuidSeq, last, issued, calls, failed, attempts, age, log, base,
                       storeProc>>

\* redis_store.setex(f'result:{url}', 10, result); return result
PageStepSetex(q) ==
    /\ pageProc[q].pc = "setex"
    /\ LET w == RedisSetex(db, ResultKey(pageProc[q].url), TTL, pageProc[q].out.value)
       IN  /\ db' = w.db
           /\ pageProc' = At(q, "done", IF w.out.raised THEN w.out ELSE pageProc[q].out)
           /\ age' = [age EXCEPT ![pageProc[q].url] = IF w.out.raised THEN @ ELSE 0]
    /\ UNCHANGED <<uuidSeq, last, issued, calls, failed, attempts, fetches, log, base,
                   storeProc>>

------------------------------------------------------------------------------
(* The state machine *)

Op(op, arg, out, fetched) ==
    [op |-> op, arg |-> arg, raised |-> out.raised, result |-> out.value,
     fetched |-> fetched]

\* A freshly constructed Cache on a flushed database; web.py imported.
Init ==
    /\ db = EmptyDb
    /\ uuidSeq = 0
    /\ last = Op("init", None, Return(None), FALSE)
    /\ issued = {}
    /\ calls = 0
    /\ failed = 0
    /\ attempts = [u \in Urls |-> 0]
    /\ fetches = [u \in Urls |-> 0]
    /\ age = [u \in Urls |-> 0 - 1]
    /\ log = <<>>
    /\ base = [u \in Urls |-> 0]
    /\ storeProc = [p \in Callers |-> IdleCaller]
    /\ pageProc = [q \in PageCallers |-> IdlePageCaller]

\* Cache(): another instance is constructed (or the program is started
\* again); the keys issued so far stay known to their holders.
CacheInit ==
    /\ db' = RedisFlushdb(db)
    /\ last' = Op("init", None, Return(None), FALSE)
    /\ calls' = 0
    /\ failed' = 0
    /\ log' = <<>>
    /\ base' = attempts
    /\ UNCHANGED <<uuidSeq, issued, attempts, fetches, age,
                   storeProc, pageProc>>

\* cache.store(data)
Store ==
    \E data \in Values :
        /\ uuidSeq < MaxCalls
        /\ LET r == CallHistoryInvoker(db, uuidSeq, data)
           IN  /\ db' = r.db
               /\ uuidSeq' = r.seq
               /\ last' = Op("store", data, r.out, FALSE)
               /\ issued' = IF r.out.raised THEN issued ELSE issued \cup {r.out.value.val}
               /\ calls' = calls + 1
               /\ failed' = IF r.out.raised THEN failed + 1 ELSE failed
               /\ log' = Append(log, [arg |-> data, raised |-> r.out.raised,
                                      result |-> r.out.value])
        /\ UNCHANGED <<attempts, fetches, age, base,
                   storeProc, pageProc>>

\* cache.get(key)
Get ==
    \E key \in GetKeys :
        /\ last' = Op("get", key, CacheGet(db, key, "None"), FALSE)
        /\ UNCHANGED <<db, uuidSeq, issued, calls, failed, attempts, fetches, age, log, base,
                   storeProc, pageProc>>

\* cache.get_str(key)
GetStr ==
    \E key \in DecodeKeys :
        /\ last' = Op("get_str", key, CacheGet(db, key, "str"), FALSE)
        /\ UNCHANGED <<db, uuidSeq, issued, calls, failed, attempts, fetches, age, log, base,
                   storeProc, pageProc>>

\* cache.get_int(key)
GetInt ==
    \E key \in DecodeKeys :
        /\ last' = Op("get_int", key, CacheGet(db, key, "int"), FALSE)
        /\ UNCHANGED <<db, uuidSeq, issued, calls, failed, attempts, fetches, age, log, base,
                   storeProc, pageProc>>

\* replay(fn)
Replay ==
    \E fn \in ReplayFns :
        /\ LET r == replay(db, fn)
           IN  /\ db' = r.db
               /\ last' = Op("replay", fn, r.out, FALSE)
        /\ UNCHANGED <<uuidSeq, issued, calls, failed, attempts, fetches, age, log, base,
                   storeProc, pageProc>>

\* get_page(url)
GetPage ==
    \E url \in Urls, fetch \in FetchOutcomes :
        /\ attempts[url] < MaxPageCalls
        /\ LET r == PageInvoker(db, url, fetch)
               wrote == r.fetched /\ ~r.out.raised
           IN  /\ db' = r.db
               /\ last' = Op("get_page", url, r.out, r.fetched)
               /\ attempts' = [attempts EXCEPT ![url] = @ + 1]
               /\ fetches' = [fetches EXCEPT ![url] = IF r.fetched THEN @ + 1 ELSE @]
               /\ age' = [age EXCEPT ![url] = IF wrote THEN 0 ELSE @]
        /\ UNCHANGED <<uuidSeq, issued, calls, failed, log, base,
                   storeProc, pageProc>>

\* One second passes.
Tick ==
    /\ db' = Expire(db)
    /\ age' = [u \in Urls |-> IF age[u] < 0 \/ age[u] >= TTL THEN age[u] ELSE age[u] + 1]
    /\ last' = Op("tick", None, Return(None), FALSE)
    /\ UNCHANGED <<uuidSeq, issued, calls, failed, attempts, fetches, log, base,
                   storeProc, pageProc>>

\* Store and page calls made so far.
Made == uuidSeq + attempts["http://a"] + attempts["http://b"]

Next ==
    \/ CacheInit
    \/ (Made < MaxMixed /\ Store)
    \/ Get
    \/ GetStr
    \/ GetInt
    \/ Replay
    \/ (Made < MaxMixed /\ GetPage)
    \/ Tick

Spec == Init /\ [][Next]_vars

NextCache == CacheInit \/ Store \/ Get \/ GetStr \/ GetInt \/ Replay

SpecCache == Init /\ [][NextCache]_vars

NextPage == GetPage \/ Tick

SpecPage == Init /\ [][NextPage]_vars

\* Callers of cache.store whose Redis commands interleave.
NextConc ==
    \E p \in Callers :
        CallStore(p) \/ StepInputs(p) \/ StepIncr(p) \/ StepSet(p) \/ StepOutputs(p)

SpecConc == Init /\ [][NextConc]_vars

\* Callers of get_page whose steps interleave, and the clock.
NextPageConc ==
    \/ \E q \in PageCallers :
          \/ CallPage(q)
          \/ PageStepIncr(q)
          \/ PageStepGet(q)
          \/ PageStepFetch(q)
          \/ PageStepSetex(q)
    \/ Tick

SpecPageConc == Init /\ [][NextPageConc]_vars

-----------------------------------------------------------------------------
(* Properties *)

Inputs == History(db, InputsKey)

Outputs == History(db, OutputsKey)

\* C1: on a freshly constructed Cache, after N calls of Cache.store none of
\* which raised, the counter 'Cache.store' is N and the lists
\* 'Cache.store:inputs' and 'Cache.store:outputs' hold N entries each.
C1_CountsMatchCalls ==
    failed = 0 =>
        /\ CallCount(db, QualName) = calls
        /\ Len(Inputs) = calls
        /\ Len(Outputs) = calls

C1_Witness == calls = 2 /\ failed = 0 /\ last.op = "store"

\* What Cache.get, without a decoder, returns for the key the last store
\* call returned.
GetOfLastStore == CacheGet(db, last.result.val, "None")

StoreReturned == last.op = "store" /\ ~last.raised

\* C2 as stated: for every v, Cache.get(Cache.store(v)) with no decoder is v
\* bit for bit.
C2_RoundTripExact ==
    StoreReturned => (~GetOfLastStore.raised /\ GetOfLastStore.value = last.arg)

\* C2, amended: Cache.get(Cache.store(v)) with no decoder is the bytes Redis
\* holds for v: v itself when v is binary, and otherwise bytes from which v
\* is read back: by UTF-8 decoding for text, by int() for an integer, by
\* float() for a float.
C2_RoundTripEncoded ==
    StoreReturned =>
        LET g == GetOfLastStore
            v == last.arg
        IN  /\ ~g.raised
            /\ g.value.kind = "bytes"
            /\ v.kind = "bytes" => g.value = v
            /\ v.kind = "text" => Utf8Decode(g.value.val) = Return(v.val)
            /\ v.kind = "int" => ParseInt(g.value.val) = Return(v.val)
            /\ v.kind = "float" => ParseFloat(g.value.val) = Return(v.val)

C2_Witness ==
    /\ StoreReturned
    /\ last.arg.kind = "text"
    /\ GetOfLastStore.value.kind = "bytes"
    /\ GetOfLastStore.value.val # last.arg.val

\* The keys the program itself writes beside the uuid keys.
OwnKeys ==
    {QualName, InputsKey, OutputsKey}
    \cup {CountKey(u) : u \in Urls} \cup {ResultKey(u) : u \in Urls}

GetsNone(k) == ~CacheGet(db, k, "None").raised /\ CacheGet(db, k, "None").value = None

\* C3 as stated: for every key that no Cache.store call returned, Cache.get
\* returns None and raises nothing.
C3_UnissuedKeyIsNone == \A k \in GetKeys \ issued : GetsNone(k)

\* C3, amended: for every key that no Cache.store call returned and that is
\* not one of the keys the program writes itself ('Cache.store',
\* 'Cache.store:inputs', 'Cache.store:outputs', 'count:{url}',
\* 'result:{url}'), Cache.get returns None and raises nothing.
C3_ForeignKeyIsNone == \A k \in GetKeys \ (issued \cup OwnKeys) : GetsNone(k)

\* A get of the key drawn by a store call that raised.
C3_Witness ==
    /\ last.op = "get"
    /\ last.arg = Uuid4(1)
    /\ uuidSeq >= 1
    /\ Uuid4(1) \notin issued
    /\ QualName \in DOMAIN db
    /\ ~last.raised /\ last.result = None

\* C4 as stated: between calls the inputs list and the outputs list have
\* equal length.
C4_EqualLengths == Len(Inputs) = Len(Outputs)

\* C4, amended: between calls the inputs list is longer than the outputs
\* list by the number of calls, since construction, that raised; the two
\* have equal length exactly when no call raised.
C4_LengthsDifferByFailed ==
    /\ Len(Inputs) = calls
    /\ Len(Outputs) = calls - failed

C4_Witness == last.op = "store" /\ ~last.raised /\ failed = 1 /\ calls = 2

\* C5: a Cache.store call in which the wrapped operation raises leaves its
\* input entry appended and appends nothing to the outputs list.
C5_RaiseKeepsInput ==
    [][(calls' = calls + 1 /\ last'.raised) =>
        /\ History(db', InputsKey)
             = Append(Inputs, Utf8Encode(StrArgs(last'.arg).val).value)
        /\ History(db', OutputsKey) = Outputs]_vars

C5_Witness == last.op = "store" /\ last.raised /\ Len(Inputs) = Len(Outputs) + 1

\* A step that is a get_page(u) call.
PageCall(u) == attempts'[u] = attempts[u] + 1

Cached(d, u) == ResultKey(u) \in DOMAIN d

\* C6 as stated: a get_page(url) call made while 'result:{url}' is present
\* returns the cached text and does not call the wrapped fetch, whatever
\* text was cached.
C6_PresentEntryIsServed ==
    [][\A u \in Urls :
        (PageCall(u) /\ Cached(db, u)) =>
            /\ ~last'.fetched
            /\ ~last'.raised
            /\ last'.result = PyText(Utf8Decode(db[ResultKey(u)].val).value)]_vars

\* C7: 'count:{url}' is the number of get_page(url) calls made, whether
\* they hit, missed or raised, for every url.
C7_CountIsAttempts == \A u \in Urls : CallCount(db, CountKey(u)) = attempts[u]

C7_Witness ==
    /\ last.op = "get_page" /\ last.raised
    /\ attempts["http://a"] = 2
    /\ attempts["http://b"] = 1
    /\ fetches["http://a"] = 1

\* C8: 'result:{url}' is present exactly during the TTL seconds after it was
\* written, its remaining time being TTL less its age whatever calls were
\* made meanwhile; and a get_page(url) call that finds no entry, expired or
\* never written, and whose fetch returns, caches the fetched text with an
\* expiry of TTL seconds and returns it.
C8_FixedExpiry ==
    /\ [](\A u \in Urls :
            /\ Cached(db, u) <=> (age[u] >= 0 /\ age[u] < TTL)
            /\ Cached(db, u) => db[ResultKey(u)].ttl = TTL - age[u])
    /\ [][\A u \in Urls :
            (PageCall(u) /\ ~Cached(db, u) /\ ~last'.raised) =>
                /\ last'.fetched
                /\ Cached(db', u)
                /\ db'[ResultKey(u)]
                     = StringEntry(Utf8Encode(last'.result.val).value, TTL)]_vars

\* The entry of http://a has run out although a call hit it meanwhile.
C8_Witness ==
    /\ last.op = "tick"
    /\ age["http://a"] = TTL
    /\ ~Cached(db, "http://a")
    /\ attempts["http://a"] = 2
    /\ fetches["http://a"] = 1

\* C9: a get_page(url) call whose fetch raises passes the error on, leaves
\* every entry but 'count:{url}' as it was, 'result:{url}' included, and has
\* incremented 'count:{url}' by one.
C9_FetchErrorWritesNothing ==
    [][\A u \in Urls :
        (PageCall(u) /\ last'.fetched /\ last'.raised) =>
            /\ last'.result = "RequestException"
            /\ CallCount(db', CountKey(u)) = CallCount(db, CountKey(u)) + 1
            /\ DOMAIN db' = DOMAIN db \cup {CountKey(u)}
            /\ \A k \in DOMAIN db \ {CountKey(u)} : db'[k] = db[k]]_vars

C9_Witness ==
    /\ last.op = "get_page" /\ last.raised /\ last.fetched
    /\ ~Cached(db, last.arg)
    /\ CallCount(db, CountKey(last.arg)) = 1

\* C10: right after a Cache is constructed the database is empty: the
\* counter reads 0, the histories are empty, every key issued before reads
\* None, and the page counters and cached pages are gone too.
C10_ConstructionClears ==
    last.op = "init" =>
        /\ DOMAIN db = {}
        /\ CallCount(db, QualName) = 0
        /\ Inputs = <<>>
        /\ Outputs = <<>>
        /\ \A k \in issued : GetsNone(k)
        /\ \A u \in Urls : CallCount(db, CountKey(u)) = 0 /\ ~Cached(db, u)

C10_Witness ==
    /\ last.op = "init"
    /\ issued # {}
    /\ uuidSeq = 1

Min(a, b) == IF a < b THEN a ELSE b

\* C11: replay of the bound cache.store prints a header with the counter
\* (the number of calls made, 0 when there is none) and then
\* min(len(inputs), len(outputs)) lines, line i showing inputs[i], which is
\* str(args) of the i-th call, and outputs[i]; nothing is raised.
C11_ReplayReport ==
    (last.op = "replay" /\ last.arg.kind = "method") =>
        /\ ~last.raised
        /\ Len(last.result) = 1 + Min(Len(Inputs), Len(Outputs))
        /\ last.result[1] = <<QualName, " was called ", IntRepr(calls), " times:">>
        /\ CallCount(db, QualName) = calls
        /\ \A i \in 1..Min(Len(Inputs), Len(Outputs)) :
              /\ last.result[i + 1][1] = QualName
              /\ last.result[i + 1][3] = StrArgs(log[i].arg).val
              /\ Utf8Encode(last.result[i + 1][3]) = Return(Inputs[i])
              /\ last.result[i + 1][5] = Repr(PyBytes(Outputs[i]))

\* A report made when one of two calls had raised: one line, for two inputs.
C11_Witness ==
    /\ last.op = "replay" /\ last.arg.kind = "method"
    /\ Len(Inputs) = 2 /\ Len(Outputs) = 1
    /\ Len(last.result) = 2

\* C12: replay changes nothing in the database, whatever it is given, and
\* given anything but a bound method it prints nothing.
C12_ReplayReadsOnly ==
    [][last'.op = "replay" =>
        /\ db' = db
        /\ last'.arg.kind # "method" => (~last'.raised /\ last'.result = <<>>)]_vars

\* The report of one call.
C12_Witness ==
    /\ last.op = "replay" /\ last.arg.kind = "method"
    /\ calls = 1
    /\ CallCount(db, QualName) = 1
    /\ Len(last.result) = 2

\* The calls, since construction, that returned a key.
Returned == {i \in 1..Len(log) : ~log[i].raised}

\* C13 as stated: once store(v) has returned k, Cache.get(k) returns v for as
\* long as no Cache is constructed.
C13_StoredValueIsArgument ==
    \A i \in Returned : CacheGet(db, log[i].result.val, "None").value = log[i].arg

\* C13, amended: once store(v) has returned k, Cache.get(k) returns the bytes
\* stored for v (v itself when v is binary) for as long as no Cache is
\* constructed; and every store call returns a key that was neither issued
\* before nor present in the database.
C13_StoredValueStays ==
    /\ [](\A i \in Returned :
            /\ CacheGet(db, log[i].result.val, "None")
                 = Return(PyBytes(Encode(log[i].arg).value))
            /\ \A j \in Returned : log[j].result = log[i].result => j = i)
    /\ [][(calls' = calls + 1 /\ ~last'.raised) =>
            /\ last'.result.val \notin issued
            /\ last'.result.val \notin DOMAIN db]_vars

\* Two values stored, then read with get, get_str or get_int or replayed.
C13_Witness ==
    /\ Cardinality(Returned) = 2
    /\ log[1].arg # log[2].arg
    /\ last.op \in {"get", "get_str", "get_int", "replay"}

\* C14: every Cache.store call increments the counter by one, also a call
\* whose write raises; that call stores no value and the increment stays.
C14_CountedBeforeOutcome ==
    [][calls' = calls + 1 =>
        /\ CallCount(db', QualName) = CallCount(db, QualName) + 1
        /\ last'.raised =>
              /\ ValueKeys(db') = ValueKeys(db)
              /\ \A k \in ValueKeys(db) : db'[k] = db[k]]_vars

C14_Witness ==
    /\ last.op = "store" /\ last.raised
    /\ calls = 2
    /\ CallCount(db, QualName) = 2
    /\ ValueKeys(db) = {}

\* The argument of the call that returned key k.
ArgOf(k) == log[CHOOSE i \in Returned : log[i].result.val = k].arg

IsValueKey(k) == \E i \in Returned : log[i].result.val = k

\* C16: get_str and get_int of an absent key raise (the decoder is handed
\* None) instead of returning None; of a key that store returned for a text
\* get_str returns that text, and for an integer get_int returns that
\* integer; of any present key they return or raise what the decoder does
\* with the stored bytes; the database is left as it was.
C16_DecodersUnguarded ==
    /\ [](last.op \in {"get_str", "get_int"} =>
            /\ last.arg \notin DOMAIN db =>
                  /\ last.raised
                  /\ last.result = IF last.op = "get_str" THEN "AttributeError"
                                   ELSE "TypeError"
            /\ (last.op = "get_str" /\ IsValueKey(last.arg)
                  /\ ArgOf(last.arg).kind = "text") =>
                  (~last.raised /\ last.result = ArgOf(last.arg))
            /\ (last.op = "get_int" /\ IsValueKey(last.arg)
                  /\ ArgOf(last.arg).kind = "int") =>
                  (~last.raised /\ last.result = ArgOf(last.arg))
            /\ (last.op = "get_str" /\ last.arg \in DOMAIN db) =>
                  /\ last.raised = Utf8Decode(db[last.arg].val).raised
                  /\ ~last.raised => last.result = PyText(Utf8Decode(db[last.arg].val).value)
            /\ (last.op = "get_int" /\ last.arg \in DOMAIN db) =>
                  /\ last.raised = ParseInt(db[last.arg].val).raised
                  /\ ~last.raised => last.result = PyInt(ParseInt(db[last.arg].val).value))
    /\ [][last'.op \in {"get_str", "get_int"} => db' = db]_vars

\* get_int of a key that a store call drew but, raising, never wrote.
C16_Witness ==
    /\ last.op = "get_int"
    /\ last.arg = Uuid4(1)
    /\ uuidSeq = 2
    /\ Uuid4(1) \notin DOMAIN db
    /\ Uuid4(2) \in DOMAIN db
    /\ last.raised

\* C17 as stated: for every index below both lengths, inputs[i] and
\* outputs[i] were recorded by one and the same call.
C17_PairsOfOneCall ==
    \A i \in 1..Min(Len(Inputs), Len(Outputs)) :
        \E j \in Returned :
            /\ Inputs[i] = Utf8Encode(StrArgs(log[j].arg).val).value
            /\ Outputs[i] = UuidChars(log[j].result.val)

PageKeys == {CountKey(u) : u \in Urls} \cup {ResultKey(u) : u \in Urls}

PageEntries(d) == [k \in DOMAIN d \cap PageKeys |-> d[k]]

Effects(p) == SelectSeq(storeProc[p].trace, LAMBDA e : e # "none")

IsPrefix(a, b) == Len(a) <= Len(b) /\ a = SubSeq(b, 1, Len(a))

\* C15: the commands of one cache.store call change the database in the
\* order inputs, counter, value, outputs, each at most once; a call that has
\* returned has made all four changes, and a call whose write raised has
\* made the first two and no other.
C15_EffectOrder ==
    \A p \in Callers :
        /\ IsPrefix(Effects(p), <<"inputs", "incr", "set", "outputs">>)
        /\ Len(storeProc[p].trace) = Len(Effects(p)) + (IF storeProc[p].out.raised THEN 1 ELSE 0)
        /\ (storeProc[p].pc = Done /\ ~storeProc[p].out.raised) =>
              Effects(p) = <<"inputs", "incr", "set", "outputs">>
        /\ storeProc[p].out.raised =>
              (storeProc[p].pc = Done /\ Effects(p) = <<"inputs", "incr">>)

\* One call has returned and another has raised at its write.
C15_Witness ==
    \E p, q \in Callers :
        /\ storeProc[p].pc = Done /\ ~storeProc[p].out.raised
        /\ Len(storeProc[p].trace) = 4
        /\ storeProc[q].pc = Done /\ storeProc[q].out.raised
        /\ Len(storeProc[q].trace) = 3

Past(name) == {p \in Callers : Len(SelectSeq(storeProc[p].trace, LAMBDA e : e = name)) = 1}

ReturnedCallers == {p \in Callers : storeProc[p].pc = Done /\ ~storeProc[p].out.raised}

\* C18: however the callers' commands interleave, the counter is the number
\* of calls that have run their increment, the inputs list has one entry per
\* call that has run its first append and the outputs list one per call that
\* has returned; the returned keys differ and each holds the bytes of its
\* own call's value.  Once all M calls have returned: counter M, M inputs,
\* M outputs.
C18_NoLostUpdate ==
    /\ CallCount(db, QualName) = Cardinality(Past("incr"))
    /\ Len(Inputs) = Cardinality(Past("inputs"))
    /\ Len(Outputs) = Cardinality(ReturnedCallers)
    /\ \A p \in ReturnedCallers :
          /\ CacheGet(db, storeProc[p].out.value.val, "None")
               = Return(PyBytes(Encode(storeProc[p].data).value))
          /\ \A q \in ReturnedCallers :
                storeProc[q].out = storeProc[p].out => q = p
          /\ \E i \in 1..Len(Outputs) : Outputs[i] = UuidChars(storeProc[p].out.value.val)
          /\ \E i \in 1..Len(Inputs) :
                Inputs[i] = Utf8Encode(StrArgs(storeProc[p].data).val).value
    /\ ReturnedCallers = Callers =>
          /\ CallCount(db, QualName) = NumCallers
          /\ Len(Inputs) = NumCallers
          /\ Len(Outputs) = NumCallers

\* All calls have returned, and the caller that appended its arguments first
\* appended its key last.
C18_Witness ==
    /\ ReturnedCallers = Callers
    /\ \E p \in Callers :
          /\ Inputs[1] = Utf8Encode(StrArgs(storeProc[p].data).val).value
          /\ Outputs[NumCallers] = UuidChars(storeProc[p].out.value.val)
          /\ storeProc[p].out.value.val # Uuid4(1)

\* Caller q runs the wrapped fetch, or writes what it fetched, in this step.
Fetches(q) == pageProc[q].pc = "fetch" /\ pageProc'[q].pc # "fetch"

Writes(q) == pageProc[q].pc = "setex" /\ pageProc'[q].pc = "done"

Looks(q) == pageProc[q].pc = "get" /\ pageProc'[q].pc # "get"

\* 'result:{url}' holds a non-empty text.
CachedText(d, u) == Cached(d, u) /\ d[ResultKey(u)].val # <<>>

====
